---- MODULE Spec2Model ----
(***************************************************************************)
(* A model of the runtime part of SNAFU (src/src/lib.rs): the context      *)
(* attachment operations of ResultExt and OptionExt, the control-flow      *)
(* macros ensure! and whatever!, ErrorCompat::backtrace through & and Box, *)
(* and the once-initialised backtrace flag of                              *)
(* <Option<Backtrace> as GenerateBacktrace>::generate.                     *)
(*                                                                         *)
(* The context operations are sequential: one caller executes one          *)
(* operation at a time, and `pc` is its position inside the operation.     *)
(* Every evaluation the code performs (matching on the receiver, calling   *)
(* the closure, calling into_error, formatting, ...) is appended to `log`  *)
(* and every error constructor call is appended to `built`.                *)
(***************************************************************************)
EXTENDS Naturals, Sequences, FiniteSets, TLC

VARIABLES
    op,         \* the operation being executed ("none" before the first)
    pc,         \* position of the caller inside the operation
    self,       \* the receiver (a Result or an Option), or whatever!'s $source
    context,    \* the `context` argument: a selector, or what the closure returns
    predicate,  \* ensure!'s $predicate
    fmt,        \* whatever!'s $fmt literal and its $arg values
    target,     \* the error type of the enclosing function (ensure!)
    ctx,        \* the constructed selector (the local `context`), <<>> if none
    conv,       \* whatever!: the converted source, <<>> if none
    msg,        \* whatever!: the formatted message, <<>> if none
    out,        \* what the operation evaluated to, or what was returned
    flow,       \* "running", "value", "continue" (fell through) or "return"
    log,        \* the evaluations performed so far, in order
    built,      \* the error-constructor calls performed so far, in order
    seen,       \* what each closure invocation was handed, in order
    inner,      \* ErrorCompat::backtrace: the receiver now asked, <<>> if none
    env,        \* the process environment: variable name -> <<>> or <<value>>
    START,      \* static START: Once -- "incomplete", "running" or "complete"
    ENABLED_FLAG, \* static ENABLED: AtomicBool (ENABLED is a TLA+ keyword)
    tpc,        \* each thread's position inside generate
    tval,       \* each thread's local Option<OsString> inside the initializer
    calls,      \* history: generate calls started so far
    results,    \* history: what each finished generate call returned, in order
    initRuns,   \* history: how many times the call_once closure was entered
    reads,      \* history: the environment reads, in order
    stores,     \* history: the values stored into ENABLED, in order
    envChanges, \* history: changes of the environment so far
    first,      \* history: the first generate call, its thread and the
                \* environment around it
    raced       \* history: a caller waited in call_once for the initializer

ctxVars == <<op, pc, self, context, predicate, fmt, target, ctx, conv, msg,
             out, flow, log, built, seen, inner>>

btVars == <<env, START, ENABLED_FLAG, tpc, tval, calls, results, initRuns, reads,
            stores, envChanges, first, raced>>

vars == <<ctxVars, btVars>>

-----------------------------------------------------------------------------
(* Values *)

Ok(v) == [tag |-> "Ok", val |-> v]
Err(e) == [tag |-> "Err", val |-> e]
Some(v) == [tag |-> "Some", val |-> v]
None == [tag |-> "None"]
Unused == [tag |-> "Unused"]
Pending == [tag |-> "Pending"]

\* Success values and underlying failures the caller may pass in.
Values == {"v1", "v2"}
Causes == {"io: not found", "io: permission denied"}

\* pub struct NoneError;
NoneError == "NoneError"

\* Context selectors of one error variant, OpenFailed { path }.
Selectors == {[variant |-> "OpenFailed", path |-> p] : p \in {"/tmp/x", "/tmp/y"}}

Results == {Ok(v) : v \in Values} \cup {Err(e) : e \in Causes}
Options == {Some(v) : v \in Values} \cup {None}

\* IntoError::into_error as the derive emits it: the variant named by the
\* selector, with the selector's fields, owning the cause.  A selector whose
\* Source is NoneError builds a variant without a cause.
IntoError(selector, source) ==
    [variant |-> selector.variant,
     path |-> selector.path,
     source |-> IF source = NoneError THEN <<>> ELSE <<source>>]

\* Error::source of a derived error: the stored cause, if any.
ErrorSource(error) == error.source

\* The generated Selector::fail: Err of the selector combined with no source.
Fail(selector) == Err(IntoError(selector, NoneError))

\* The error types an enclosing function may declare: the selector's own error
\* type, or a top-level type that has a From conversion from it.
ErrorTypes == {"Error", "TopError"}

\* core::convert::Into::into on an error: the reflexive conversion for the same
\* type, a wrapping conversion for another one.
Into(error, t) == IF t = "Error" THEN error ELSE [top |-> error]

\* Into::into of a failure into FromString::Source (a boxed error for Whatever).
IntoSource(error) == [boxed |-> error]

\* FromString for a `snafu(whatever)` error such as Whatever: the message, and
\* the source transformed by Some or absent.
WithoutSource(message) == [message |-> message, source |-> <<>>]
WithSource(source, message) == [message |-> message, source |-> <<source>>]

\* Messages a caller may pass as `context: S` with S: Into<String>.
Messages == {[str |-> "Can't do the math"], [str |-> "There was no angle"]}

\* context.into(): the String holding the text of the S.
IntoString(s) == s.str

\* &e, the borrowed failure a closure F: FnOnce(&E) -> S is handed.
Ref(e) == [ref |-> e]

\* The text of a failure, borrowed or boxed, as Display renders it.
Display(r) == IF "ref" \in DOMAIN r THEN r.ref ELSE r.boxed

\* The closures a caller may pass to with_whatever_context: one that ignores
\* the failure and one that describes it.
MsgClosures == {"fixed", "describe"}

\* Calling such a closure on r.
CallClosure(f, r) ==
    IF f = "fixed" THEN [str |-> "Can't do the math"]
    ELSE [str |-> "failed: " \o Display(r)]

\* Format literals (text pieces and "{}" placeholders) with matching argument
\* lists, as format! accepts them.
FmtCases ==
    {[lit |-> <<"There was no angle">>, args |-> <<>>]}
    \cup {[lit |-> <<"account ", "{}", ", sorry">>, args |-> <<a>>] : a \in {"7", "x"}}
    \cup {[lit |-> <<"{}", " - ", "{}">>, args |-> <<a, b>>] : a \in {"7"}, b \in {"7", "x"}}

\* A faulty formatting that leaves the arguments out.
RECURSIVE Format_Unsubstituted(_, _)
Format_Unsubstituted(lit, args) ==
    IF lit = <<>> THEN ""
    ELSE IF Head(lit) = "{}"
         THEN Format_Unsubstituted(Tail(lit), args)
         ELSE Head(lit) \o Format_Unsubstituted(Tail(lit), args)

\* format!: the literal with each placeholder replaced, in order, by the
\* rendering of the next argument; the pieces are concatenated.
RECURSIVE Format(_, _)
Format(lit, args) ==
    IF lit = <<>> THEN ""
    ELSE IF Head(lit) = "{}"
         THEN Head(args) \o Format(Tail(lit), Tail(args))
         ELSE Head(lit) \o Format(Tail(lit), args)

\* Result::map_err and Option::ok_or_else pass a success value through and
\* apply their closure to a failure; IsFailure is their match.
IsFailure(receiver) == receiver.tag \in {"Err", "None"}

-----------------------------------------------------------------------------
(* Starting an operation: the arguments are bound, every local but the      *)
(* constructed selector `ctx` (set by the caller of Begin) is fresh.        *)

BeginAsking(name, start, receiver, c, p, f, t, asked) ==
    /\ pc \in {"idle", "done"}
    /\ op' = name
    /\ pc' = start
    /\ self' = receiver
    /\ context' = c
    /\ predicate' = p
    /\ fmt' = f
    /\ target' = t
    /\ conv' = <<>>
    /\ msg' = <<>>
    /\ out' = Pending
    /\ flow' = "running"
    /\ log' = <<>>
    /\ built' = <<>>
    /\ seen' = <<>>
    /\ inner' = asked
    /\ UNCHANGED btVars

Begin(name, start, receiver, c, p, f, t) ==
    BeginAsking(name, start, receiver, c, p, f, t, <<>>)

\* A step that leaves the arguments (and the backtrace statics) alone.
KeepInputs == UNCHANGED <<op, self, context, predicate, fmt, target, btVars>>

\* A step that, besides, hands nothing to a closure and asks no receiver.
KeepArgs == KeepInputs /\ UNCHANGED <<seen, inner>>

-----------------------------------------------------------------------------
(* The steps shared by the adaptation operations *)

\* Result::map_err / Option::ok_or_else matching on the receiver: a success
\* value is passed through as Ok(v) and the closure is not entered; on a
\* failure the closure body starts at `body`.
MatchStep(name, body) ==
    /\ op = name /\ pc = "match"
    /\ KeepArgs
    /\ UNCHANGED <<ctx, conv, msg, built>>
    /\ IF IsFailure(self)
       THEN /\ log' = Append(log, "match_fail")
            /\ pc' = body
            /\ UNCHANGED <<out, flow>>
       ELSE /\ log' = Append(log, "match_ok")
            /\ pc' = "done"
            /\ out' = Ok(self.val)
            /\ flow' = "value"

\* let context = context();  -- the closure runs and yields the selector.
ClosureStep(name) ==
    /\ op = name /\ pc = "closure"
    /\ KeepArgs
    /\ UNCHANGED <<conv, msg, built, out, flow>>
    /\ ctx' = <<context>>
    /\ log' = Append(log, "closure")
    /\ pc' = "into_error"

\* context.into_error(error): the selector is combined with the cause and the
\* closure's value becomes the Err of the result.
IntoErrorStep(name, source) ==
    /\ op = name /\ pc = "into_error"
    /\ ctx # <<>>
    /\ KeepArgs
    /\ UNCHANGED <<ctx, conv, msg>>
    /\ built' = Append(built, [fn |-> "into_error",
                               selector |-> ctx[1],
                               source |-> source])
    /\ log' = Append(log, "into_error")
    /\ out' = Err(IntoError(ctx[1], source))
    /\ flow' = "value"
    /\ pc' = "done"

-----------------------------------------------------------------------------
(* impl<T, E> ResultExt<T, E> for Result<T, E> *)

\* fn context(self, context: C): the selector arrives constructed.
ResultContextCall ==
    \E r \in Results, c \in Selectors :
        /\ Begin("Result::context", "match", r, c, FALSE, [lit |-> <<>>, args |-> <<>>], "none")
        /\ ctx' = <<c>>

\* self.map_err(|error| ...)
ResultContextMapErr == MatchStep("Result::context", "into_error")

\* A faulty context that drops the failure and combines with no source.
ResultContextIntoError_DropsCause == IntoErrorStep("Result::context", NoneError)

\* context.into_error(error)
ResultContextIntoError == IntoErrorStep("Result::context", self.val)

\* A faulty with_context that calls the closure before looking at the receiver
\* (as `self.context(context())` would).
ResultWithContextCall_Eager ==
    \E r \in Results, c \in Selectors :
        /\ pc \in {"idle", "done"}
        /\ op' = "Result::with_context"
        /\ pc' = "match"
        /\ self' = r
        /\ context' = c
        /\ ctx' = <<c>>
        /\ log' = <<"closure">>
        /\ out' = Pending
        /\ flow' = "running"
        /\ conv' = <<>> /\ msg' = <<>> /\ built' = <<>>
        /\ UNCHANGED <<predicate, fmt, target, seen, inner, btVars>>

\* fn with_context(self, context: F): the selector is not constructed yet.
ResultWithContextCall ==
    \E r \in Results, c \in Selectors :
        /\ Begin("Result::with_context", "match", r, c, FALSE, [lit |-> <<>>, args |-> <<>>], "none")
        /\ ctx' = <<>>

\* self.map_err(|error| { ... })
ResultWithContextMapErr == MatchStep("Result::with_context", "closure")

\* let context = context();
ResultWithContextClosure == ClosureStep("Result::with_context")

\* context.into_error(error)
ResultWithContextIntoError == IntoErrorStep("Result::with_context", self.val)

-----------------------------------------------------------------------------
(* impl<T> OptionExt<T> for Option<T> *)

\* fn context(self, context: C)
OptionContextCall ==
    \E o \in Options, c \in Selectors :
        /\ Begin("Option::context", "match", o, c, FALSE, [lit |-> <<>>, args |-> <<>>], "none")
        /\ ctx' = <<c>>

\* self.ok_or_else(|| ...)
OptionContextOkOrElse == MatchStep("Option::context", "into_error")

\* context.into_error(NoneError)
OptionContextIntoError == IntoErrorStep("Option::context", NoneError)

\* A faulty with_context that calls the closure before looking at the receiver.
OptionWithContextCall_Eager ==
    \E o \in Options, c \in Selectors :
        /\ pc \in {"idle", "done"}
        /\ op' = "Option::with_context"
        /\ pc' = "match"
        /\ self' = o
        /\ context' = c
        /\ ctx' = <<c>>
        /\ log' = <<"closure">>
        /\ out' = Pending
        /\ flow' = "running"
        /\ conv' = <<>> /\ msg' = <<>> /\ built' = <<>>
        /\ UNCHANGED <<predicate, fmt, target, seen, inner, btVars>>

\* fn with_context(self, context: F)
OptionWithContextCall ==
    \E o \in Options, c \in Selectors :
        /\ Begin("Option::with_context", "match", o, c, FALSE, [lit |-> <<>>, args |-> <<>>], "none")
        /\ ctx' = <<>>

\* self.ok_or_else(|| ...)
OptionWithContextOkOrElse == MatchStep("Option::with_context", "closure")

\* context()
OptionWithContextClosure == ClosureStep("Option::with_context")

\* .into_error(NoneError)
OptionWithContextIntoError == IntoErrorStep("Option::with_context", NoneError)

-----------------------------------------------------------------------------
(* whatever_context and with_whatever_context *)

\* e.into(): the failure converted into FromString::Source.
IntoSourceStep(name) ==
    /\ op = name /\ pc = "into"
    /\ KeepArgs
    /\ UNCHANGED <<ctx, msg, built, out, flow>>
    /\ conv' = <<IntoSource(self.val)>>
    /\ log' = Append(log, "into")
    /\ pc' = "into_string"

\* context.into(): the message as a String.
IntoStringStep(name, then) ==
    /\ op = name /\ pc = "into_string"
    /\ ctx # <<>>
    /\ KeepArgs
    /\ UNCHANGED <<ctx, conv, built, out, flow>>
    /\ msg' = <<IntoString(ctx[1])>>
    /\ log' = Append(log, "into_string")
    /\ pc' = then

\* FromString::with_source(.., ..) becomes the Err of the result.
WithSourceStep(name) ==
    /\ op = name /\ pc = "with_source"
    /\ KeepArgs
    /\ UNCHANGED <<ctx, conv, msg>>
    /\ built' = Append(built, [fn |-> "with_source",
                               source |-> conv[1],
                               message |-> msg[1]])
    /\ log' = Append(log, "with_source")
    /\ out' = Err(WithSource(conv[1], msg[1]))
    /\ flow' = "value"
    /\ pc' = "done"

\* FromString::without_source(..) becomes the Err of the result.
WithoutSourceStep(name) ==
    /\ op = name /\ pc = "without_source"
    /\ KeepArgs
    /\ UNCHANGED <<ctx, conv, msg>>
    /\ built' = Append(built, [fn |-> "without_source", message |-> msg[1]])
    /\ log' = Append(log, "without_source")
    /\ out' = Err(WithoutSource(msg[1]))
    /\ flow' = "value"
    /\ pc' = "done"

\* ResultExt::whatever_context(self, context: S)
ResultWhateverContextCall ==
    \E r \in Results, m \in Messages :
        /\ Begin("Result::whatever_context", "match", r, m, FALSE,
                 [lit |-> <<>>, args |-> <<>>], "none")
        /\ ctx' = <<m>>

\* self.map_err(|e| ...)
ResultWhateverContextMapErr == MatchStep("Result::whatever_context", "into")

\* e.into()
ResultWhateverContextInto == IntoSourceStep("Result::whatever_context")

\* context.into()
ResultWhateverContextIntoString ==
    IntoStringStep("Result::whatever_context", "with_source")

\* A faulty whatever_context that builds the error from the message alone.
ResultWhateverContextWithSource_DropsSource ==
    /\ op = "Result::whatever_context" /\ pc = "with_source"
    /\ KeepArgs
    /\ UNCHANGED <<ctx, conv, msg>>
    /\ built' = Append(built, [fn |-> "without_source", message |-> msg[1]])
    /\ log' = Append(log, "without_source")
    /\ out' = Err(WithoutSource(msg[1]))
    /\ flow' = "value"
    /\ pc' = "done"

\* FromString::with_source(e.into(), context.into())
ResultWhateverContextWithSource == WithSourceStep("Result::whatever_context")

\* ResultExt::with_whatever_context(self, context: F), F: FnOnce(&E) -> S
ResultWithWhateverContextCall ==
    \E r \in Results, f \in MsgClosures :
        /\ Begin("Result::with_whatever_context", "match", r, f, FALSE,
                 [lit |-> <<>>, args |-> <<>>], "none")
        /\ ctx' = <<>>

\* self.map_err(|e| { ... })
ResultWithWhateverContextMapErr ==
    MatchStep("Result::with_whatever_context", "closure")

\* A faulty with_whatever_context that converts the failure first and hands
\* the closure the converted value.
ResultWithWhateverContextClosure_Converted ==
    /\ op = "Result::with_whatever_context" /\ pc = "closure"
    /\ KeepInputs
    /\ UNCHANGED <<conv, msg, built, out, flow, inner>>
    /\ seen' = Append(seen, IntoSource(self.val))
    /\ ctx' = <<CallClosure(context, IntoSource(self.val))>>
    /\ log' = Append(log, "closure")
    /\ pc' = "into"

\* let context = context(&e);
ResultWithWhateverContextClosure ==
    /\ op = "Result::with_whatever_context" /\ pc = "closure"
    /\ KeepInputs
    /\ UNCHANGED <<conv, msg, built, out, flow, inner>>
    /\ seen' = Append(seen, Ref(self.val))
    /\ ctx' = <<CallClosure(context, Ref(self.val))>>
    /\ log' = Append(log, "closure")
    /\ pc' = "into"

\* e.into()
ResultWithWhateverContextInto == IntoSourceStep("Result::with_whatever_context")

\* context.into()
ResultWithWhateverContextIntoString ==
    IntoStringStep("Result::with_whatever_context", "with_source")

\* FromString::with_source(e.into(), context.into())
ResultWithWhateverContextWithSource ==
    WithSourceStep("Result::with_whatever_context")

\* OptionExt::whatever_context(self, context: S)
OptionWhateverContextCall ==
    \E o \in Options, m \in Messages :
        /\ Begin("Option::whatever_context", "match", o, m, FALSE,
                 [lit |-> <<>>, args |-> <<>>], "none")
        /\ ctx' = <<m>>

\* self.ok_or_else(|| ...)
OptionWhateverContextOkOrElse ==
    MatchStep("Option::whatever_context", "into_string")

\* context.into()
OptionWhateverContextIntoString ==
    IntoStringStep("Option::whatever_context", "without_source")

\* FromString::without_source(context.into())
OptionWhateverContextWithoutSource ==
    WithoutSourceStep("Option::whatever_context")

\* OptionExt::with_whatever_context(self, context: F), F: FnOnce() -> S
OptionWithWhateverContextCall ==
    \E o \in Options, m \in Messages :
        /\ Begin("Option::with_whatever_context", "match", o, m, FALSE,
                 [lit |-> <<>>, args |-> <<>>], "none")
        /\ ctx' = <<>>

\* self.ok_or_else(|| { ... })
OptionWithWhateverContextOkOrElse ==
    MatchStep("Option::with_whatever_context", "closure")

\* let context = context();
OptionWithWhateverContextClosure ==
    /\ op = "Option::with_whatever_context" /\ pc = "closure"
    /\ KeepArgs
    /\ UNCHANGED <<conv, msg, built, out, flow>>
    /\ ctx' = <<context>>
    /\ log' = Append(log, "closure")
    /\ pc' = "into_string"

\* context.into()
OptionWithWhateverContextIntoString ==
    IntoStringStep("Option::with_whatever_context", "without_source")

\* FromString::without_source(context.into())
OptionWithWhateverContextWithoutSource ==
    WithoutSourceStep("Option::with_whatever_context")

-----------------------------------------------------------------------------
(* pub trait ErrorCompat *)

MaxDepth == 2

\* A captured backtrace, or none.
Backtraces == {<<>>, <<"frames">>}

\* Error types: whether the type overrides ErrorCompat::backtrace, and the
\* backtrace the value holds.
BaseErrors == [overrides : BOOLEAN, backtrace : Backtraces]

\* An error behind up to MaxDepth layers of & and Box, outermost first.
Layerings == UNION {[1..k -> {"ref", "box"}] : k \in 0..MaxDepth}
WrappedErrors == [layers : Layerings, base : BaseErrors]

\* The backtrace an overriding error type exposes: its own.
OwnBacktrace(base) == base.backtrace

\* ErrorCompat::backtrace(&wrapped)
BacktraceCall ==
    \E e \in WrappedErrors :
        /\ BeginAsking("ErrorCompat::backtrace", "backtrace", e, Unused, FALSE,
                       [lit |-> <<>>, args |-> <<>>], "none", <<e>>)
        /\ ctx' = <<>>

\* One layer is taken off and the wrapped error is asked.
Deref(name, layer) ==
    /\ op = "ErrorCompat::backtrace" /\ pc = "backtrace"
    /\ inner[1].layers # <<>>
    /\ Head(inner[1].layers) = layer
    /\ KeepInputs
    /\ UNCHANGED <<pc, ctx, conv, msg, built, out, flow, seen>>
    /\ inner' = <<[inner[1] EXCEPT !.layers = Tail(@)]>>
    /\ log' = Append(log, name)

\* impl ErrorCompat for &'a E: (**self).backtrace()
BacktraceRef == Deref("deref_ref", "ref")

\* A faulty Box<E> that is left with the provided method and answers None.
BacktraceBox_Default ==
    /\ op = "ErrorCompat::backtrace" /\ pc = "backtrace"
    /\ inner[1].layers # <<>>
    /\ Head(inner[1].layers) = "box"
    /\ KeepArgs
    /\ UNCHANGED <<ctx, conv, msg, built>>
    /\ log' = Append(log, "default")
    /\ out' = [tag |-> "Backtrace", val |-> <<>>]
    /\ flow' = "value"
    /\ pc' = "done"

\* impl ErrorCompat for Box<E>: (**self).backtrace()
BacktraceBox == Deref("deref_box", "box")

\* The provided method: fn backtrace(&self) -> Option<&Backtrace> { None }
BacktraceDefault ==
    /\ op = "ErrorCompat::backtrace" /\ pc = "backtrace"
    /\ inner[1].layers = <<>>
    /\ ~inner[1].base.overrides
    /\ KeepArgs
    /\ UNCHANGED <<ctx, conv, msg, built>>
    /\ log' = Append(log, "default")
    /\ out' = [tag |-> "Backtrace", val |-> <<>>]
    /\ flow' = "value"
    /\ pc' = "done"

\* An error type that overrides the method answers with its own backtrace.
BacktraceOverridden ==
    /\ op = "ErrorCompat::backtrace" /\ pc = "backtrace"
    /\ inner[1].layers = <<>>
    /\ inner[1].base.overrides
    /\ KeepArgs
    /\ UNCHANGED <<ctx, conv, msg, built>>
    /\ log' = Append(log, "override")
    /\ out' = [tag |-> "Backtrace", val |-> OwnBacktrace(inner[1].base)]
    /\ flow' = "value"
    /\ pc' = "done"

-----------------------------------------------------------------------------
(* macro_rules! ensure *)

\* ensure!($predicate, $context_selector) inside a function returning
\* Result<_, target>.
EnsureCall ==
    \E p \in BOOLEAN, c \in Selectors, t \in ErrorTypes :
        /\ Begin("ensure!", "test", Unused, c, p, [lit |-> <<>>, args |-> <<>>], t)
        /\ ctx' = <<>>

\* A faulty ensure! that tests the predicate without negating it.
EnsureTest_Inverted ==
    /\ op = "ensure!" /\ pc = "test"
    /\ KeepArgs
    /\ UNCHANGED <<ctx, conv, msg, built, out>>
    /\ log' = Append(log, "predicate")
    /\ IF predicate
       THEN pc' = "selector" /\ flow' = flow
       ELSE pc' = "done" /\ flow' = "continue"

\* if !$predicate { ... }
EnsureTest ==
    /\ op = "ensure!" /\ pc = "test"
    /\ KeepArgs
    /\ UNCHANGED <<ctx, conv, msg, built, out>>
    /\ log' = Append(log, "predicate")
    /\ IF ~predicate
       THEN pc' = "selector" /\ flow' = flow
       ELSE pc' = "done" /\ flow' = "continue"

\* $context_selector is evaluated
EnsureSelector ==
    /\ op = "ensure!" /\ pc = "selector"
    /\ KeepArgs
    /\ UNCHANGED <<conv, msg, built, out, flow>>
    /\ ctx' = <<context>>
    /\ log' = Append(log, "selector")
    /\ pc' = "fail"

\* .fail()
EnsureFail ==
    /\ op = "ensure!" /\ pc = "fail"
    /\ KeepArgs
    /\ UNCHANGED <<ctx, conv, msg, flow>>
    /\ built' = Append(built, [fn |-> "into_error",
                               selector |-> ctx[1],
                               source |-> NoneError])
    /\ log' = Append(log, "fail")
    /\ out' = Fail(ctx[1])
    /\ pc' = "map_err"

\* return ... .map_err(::core::convert::Into::into);
EnsureReturn ==
    /\ op = "ensure!" /\ pc = "map_err"
    /\ KeepArgs
    /\ UNCHANGED <<ctx, conv, msg, built>>
    /\ log' = Append(log, "into")
    /\ out' = Err(Into(out.val, target))
    /\ flow' = "return"
    /\ pc' = "done"

-----------------------------------------------------------------------------
(* macro_rules! whatever *)

\* format!($fmt, $($arg),*)
FormatStep(name, then) ==
    /\ op = name /\ pc = "format"
    /\ KeepArgs
    /\ UNCHANGED <<ctx, conv, built, out, flow>>
    /\ msg' = <<Format(fmt.lit, fmt.args)>>
    /\ log' = Append(log, "format")
    /\ pc' = then

\* whatever!($fmt, $($arg),*)
WhateverCall ==
    \E f \in FmtCases :
        /\ Begin("whatever!", "format", Unused, Unused, FALSE, f, "none")
        /\ ctx' = <<>>

WhateverFormat == FormatStep("whatever!", "without_source")

\* return Err({ FromString::without_source(...) });
WhateverReturn ==
    /\ op = "whatever!" /\ pc = "without_source"
    /\ KeepArgs
    /\ UNCHANGED <<ctx, conv, msg>>
    /\ built' = Append(built, [fn |-> "without_source", message |-> msg[1]])
    /\ log' = Append(log, "without_source")
    /\ out' = Err(WithoutSource(msg[1]))
    /\ flow' = "return"
    /\ pc' = "done"

\* whatever!($source, $fmt, $($arg),*)
WhateverSourceCall ==
    \E r \in Results, f \in FmtCases :
        /\ Begin("whatever!(source)", "match", r, Unused, FALSE, f, "none")
        /\ ctx' = <<>>

\* A faulty whatever! that formats the message before looking at the result.
WhateverSourceMatch_FormatsFirst ==
    /\ op = "whatever!(source)" /\ pc = "match"
    /\ KeepArgs
    /\ UNCHANGED <<ctx, conv, built>>
    /\ msg' = <<Format(fmt.lit, fmt.args)>>
    /\ log' = log \o <<"format", "source">>
    /\ IF self.tag = "Ok"
       THEN /\ out' = [tag |-> "Value", val |-> self.val]
            /\ flow' = "value"
            /\ pc' = "done"
       ELSE /\ pc' = "into"
            /\ UNCHANGED <<out, flow>>

\* match $source { Ok(v) => v, Err(e) => { ... } }
WhateverSourceMatch ==
    /\ op = "whatever!(source)" /\ pc = "match"
    /\ KeepArgs
    /\ UNCHANGED <<ctx, conv, msg, built>>
    /\ log' = Append(log, "source")
    /\ IF self.tag = "Ok"
       THEN /\ out' = [tag |-> "Value", val |-> self.val]
            /\ flow' = "value"
            /\ pc' = "done"
       ELSE /\ pc' = "into"
            /\ UNCHANGED <<out, flow>>

\* core::convert::Into::into(e)
WhateverSourceInto ==
    /\ op = "whatever!(source)" /\ pc = "into"
    /\ KeepArgs
    /\ UNCHANGED <<ctx, msg, built, out, flow>>
    /\ conv' = <<IntoSource(self.val)>>
    /\ log' = Append(log, "into")
    /\ pc' = "format"

WhateverSourceFormat == FormatStep("whatever!(source)", "with_source")

\* A faulty whatever! that swallows the cause.
WhateverSourceReturn_DropsSource ==
    /\ op = "whatever!(source)" /\ pc = "with_source"
    /\ KeepArgs
    /\ UNCHANGED <<ctx, conv, msg>>
    /\ built' = Append(built, [fn |-> "without_source", message |-> msg[1]])
    /\ log' = Append(log, "without_source")
    /\ out' = Err(WithoutSource(msg[1]))
    /\ flow' = "return"
    /\ pc' = "done"

\* return Err({ FromString::with_source(..., ...) });
WhateverSourceReturn ==
    /\ op = "whatever!(source)" /\ pc = "with_source"
    /\ KeepArgs
    /\ UNCHANGED <<ctx, conv, msg>>
    /\ built' = Append(built, [fn |-> "with_source",
                               source |-> conv[1],
                               message |-> msg[1]])
    /\ log' = Append(log, "with_source")
    /\ out' = Err(WithSource(conv[1], msg[1]))
    /\ flow' = "return"
    /\ pc' = "done"

-----------------------------------------------------------------------------
(* impl GenerateBacktrace for Option<Backtrace> *)

NumThreads == 2
MaxCalls == 3
MaxEnvChanges == 2

Threads == 1..NumThreads

LIB == "RUST_LIB_BACKTRACE"
BT == "RUST_BACKTRACE"
EnvNames == {LIB, BT}

\* What a variable may hold: absent (<<>>) or a text, among them the marker
\* "1", other texts and the empty text.
EnvValues == {<<>>, <<"1">>, <<"0">>, <<"">>}

\* env::var_os(name)
VarOs(name) == env[name]

\* A faulty test that takes any value that is set for the marker.
MapOrIsOne_AnyValue(v) == v # <<>>

\* .map_or(false, |v| v == "1")
MapOrIsOne(v) == IF v = <<>> THEN FALSE ELSE v[1] = "1"

\* The host program calls generate() on thread t.
GenerateCall(t) ==
    /\ UNCHANGED ctxVars
    /\ tpc[t] = "idle"
    /\ calls < MaxCalls
    /\ calls' = calls + 1
    /\ tpc' = [tpc EXCEPT ![t] = "call_once"]
    /\ first' = IF first.phase = "before"
                THEN [phase |-> "running", thread |-> t, env |-> env,
                      disturbed |-> FALSE]
                ELSE first
    /\ UNCHANGED <<env, START, ENABLED_FLAG, tval, results, initRuns, reads, stores,
                   envChanges, raced>>

\* A faulty guard that runs the initializer on every call.
CallOnce_EveryCall(t) ==
    /\ UNCHANGED ctxVars
    /\ tpc[t] = "call_once"
    /\ START # "running"
    /\ START' = "running"
    /\ initRuns' = initRuns + 1
    /\ tpc' = [tpc EXCEPT ![t] = "read_lib"]
    /\ UNCHANGED <<env, ENABLED_FLAG, tval, calls, results, reads, stores,
                   envChanges, first, raced>>

\* A faulty guard that checks for completion and then initializes, so that
\* two callers can both run the initializer.
CallOnce_CheckThenAct(t) ==
    /\ UNCHANGED ctxVars
    /\ tpc[t] = "call_once"
    /\ IF START # "complete"
       THEN /\ START' = "running"
            /\ initRuns' = initRuns + 1
            /\ tpc' = [tpc EXCEPT ![t] = "read_lib"]
       ELSE /\ tpc' = [tpc EXCEPT ![t] = "load"]
            /\ UNCHANGED <<START, initRuns>>
    /\ UNCHANGED <<env, ENABLED_FLAG, tval, calls, results, reads, stores,
                   envChanges, first, raced>>

\* A faulty guard that does not wait for a running initializer.
CallOnce_NoWait(t) ==
    /\ UNCHANGED ctxVars
    /\ tpc[t] = "call_once"
    /\ IF START = "incomplete"
       THEN /\ START' = "running"
            /\ initRuns' = initRuns + 1
            /\ tpc' = [tpc EXCEPT ![t] = "read_lib"]
       ELSE /\ tpc' = [tpc EXCEPT ![t] = "load"]
            /\ UNCHANGED <<START, initRuns>>
    /\ UNCHANGED <<env, ENABLED_FLAG, tval, calls, results, reads, stores,
                   envChanges, first, raced>>

\* START.call_once(|| { ... }): the first caller runs the closure; a caller
\* that finds it running blocks until it has completed; a caller that finds it
\* completed goes on.
CallOnce(t) ==
    /\ UNCHANGED ctxVars
    /\ tpc[t] = "call_once"
    /\ START # "running"
    /\ IF START = "incomplete"
       THEN /\ START' = "running"
            /\ initRuns' = initRuns + 1
            /\ tpc' = [tpc EXCEPT ![t] = "read_lib"]
       ELSE /\ tpc' = [tpc EXCEPT ![t] = "load"]
            /\ UNCHANGED <<START, initRuns>>
    /\ UNCHANGED <<env, ENABLED_FLAG, tval, calls, results, reads, stores,
                   envChanges, first, raced>>

\* env::var_os("RUST_LIB_BACKTRACE") .or_else(...): the second variable is
\* read only if the first is absent.
InitReadLib(t) ==
    /\ UNCHANGED ctxVars
    /\ tpc[t] = "read_lib"
    /\ tval' = [tval EXCEPT ![t] = VarOs(LIB)]
    /\ reads' = Append(reads, [name |-> LIB, val |-> VarOs(LIB)])
    /\ tpc' = [tpc EXCEPT ![t] = IF VarOs(LIB) = <<>> THEN "read_bt" ELSE "store"]
    /\ UNCHANGED <<env, START, ENABLED_FLAG, calls, results, initRuns, stores,
                   envChanges, first, raced>>

\* || env::var_os("RUST_BACKTRACE")
InitReadBt(t) ==
    /\ UNCHANGED ctxVars
    /\ tpc[t] = "read_bt"
    /\ tval' = [tval EXCEPT ![t] = VarOs(BT)]
    /\ reads' = Append(reads, [name |-> BT, val |-> VarOs(BT)])
    /\ tpc' = [tpc EXCEPT ![t] = "store"]
    /\ UNCHANGED <<env, START, ENABLED_FLAG, calls, results, initRuns, stores,
                   envChanges, first, raced>>

\* let enabled = ... .map_or(false, |v| v == "1");
\* ENABLED.store(enabled, Ordering::SeqCst);
InitStore(t) ==
    /\ UNCHANGED ctxVars
    /\ tpc[t] = "store"
    /\ ENABLED_FLAG' = MapOrIsOne(tval[t])
    /\ stores' = Append(stores, MapOrIsOne(tval[t]))
    /\ tpc' = [tpc EXCEPT ![t] = "finish"]
    /\ UNCHANGED <<env, START, tval, calls, results, initRuns, reads,
                   envChanges, first, raced>>

\* The closure returns and the Once becomes complete, releasing the waiters.
InitFinish(t) ==
    /\ UNCHANGED ctxVars
    /\ tpc[t] = "finish"
    /\ START' = "complete"
    /\ tpc' = [tpc EXCEPT ![t] = "load"]
    /\ tval' = [tval EXCEPT ![t] = <<>>]
    /\ raced' = (raced \/ \E u \in Threads \ {t} : tpc[u] = "call_once")
    /\ UNCHANGED <<env, ENABLED_FLAG, calls, results, initRuns, reads, stores,
                   envChanges, first>>

\* if ENABLED.load(Ordering::SeqCst) { Some(Backtrace::generate()) } else { None }
\* The result is TRUE for a present backtrace.
Load(t) ==
    /\ UNCHANGED ctxVars
    /\ tpc[t] = "load"
    /\ results' = Append(results, ENABLED_FLAG)
    /\ tpc' = [tpc EXCEPT ![t] = "idle"]
    /\ first' = IF first.phase = "running" /\ first.thread = t
                THEN [first EXCEPT !.phase = "returned"]
                ELSE first
    /\ UNCHANGED <<env, START, ENABLED_FLAG, tval, calls, initRuns, reads, stores,
                   envChanges, raced>>

\* The host program sets or removes one of the variables.
SetEnv ==
    /\ UNCHANGED ctxVars
    /\ envChanges < MaxEnvChanges
    /\ \E name \in EnvNames, v \in EnvValues :
        /\ v # env[name]
        /\ env' = [env EXCEPT ![name] = v]
    /\ envChanges' = envChanges + 1
    /\ first' = IF first.phase = "running"
                THEN [first EXCEPT !.disturbed = TRUE]
                ELSE first
    /\ UNCHANGED <<START, ENABLED_FLAG, tpc, tval, calls, results, initRuns, reads,
                   stores, raced>>

-----------------------------------------------------------------------------
(* Specifications *)

InitContext ==
    /\ op = "none"
    /\ pc = "idle"
    /\ self = Unused
    /\ context = Unused
    /\ predicate = FALSE
    /\ fmt = [lit |-> <<>>, args |-> <<>>]
    /\ target = "none"
    /\ ctx = <<>>
    /\ conv = <<>>
    /\ msg = <<>>
    /\ out = Pending
    /\ flow = "running"
    /\ log = <<>>
    /\ built = <<>>
    /\ seen = <<>>
    /\ inner = <<>>

\* The process starts with any environment; the statics hold their
\* initialisers (Once::new(), AtomicBool::new(false)).
InitBacktrace ==
    /\ env \in [EnvNames -> EnvValues]
    /\ START = "incomplete"
    /\ ENABLED_FLAG = FALSE
    /\ tpc = [t \in Threads |-> "idle"]
    /\ tval = [t \in Threads |-> <<>>]
    /\ calls = 0
    /\ results = <<>>
    /\ initRuns = 0
    /\ reads = <<>>
    /\ stores = <<>>
    /\ envChanges = 0
    /\ first = [phase |-> "before", thread |-> 0, env |-> env,
                disturbed |-> FALSE]
    /\ raced = FALSE

Init == InitContext /\ InitBacktrace

NextContext ==
    \/ ResultContextCall
    \/ ResultContextMapErr
    \/ ResultContextIntoError
    \/ ResultWithContextCall
    \/ ResultWithContextMapErr
    \/ ResultWithContextClosure
    \/ ResultWithContextIntoError
    \/ OptionContextCall
    \/ OptionContextOkOrElse
    \/ OptionContextIntoError
    \/ OptionWithContextCall
    \/ OptionWithContextOkOrElse
    \/ OptionWithContextClosure
    \/ OptionWithContextIntoError
    \/ EnsureCall
    \/ EnsureTest
    \/ EnsureSelector
    \/ EnsureFail
    \/ EnsureReturn
    \/ WhateverCall
    \/ WhateverFormat
    \/ WhateverReturn
    \/ WhateverSourceCall
    \/ WhateverSourceMatch
    \/ WhateverSourceInto
    \/ WhateverSourceFormat
    \/ WhateverSourceReturn
    \/ ResultWhateverContextCall
    \/ ResultWhateverContextMapErr
    \/ ResultWhateverContextInto
    \/ ResultWhateverContextIntoString
    \/ ResultWhateverContextWithSource
    \/ ResultWithWhateverContextCall
    \/ ResultWithWhateverContextMapErr
    \/ ResultWithWhateverContextClosure
    \/ ResultWithWhateverContextInto
    \/ ResultWithWhateverContextIntoString
    \/ ResultWithWhateverContextWithSource
    \/ OptionWhateverContextCall
    \/ OptionWhateverContextOkOrElse
    \/ OptionWhateverContextIntoString
    \/ OptionWhateverContextWithoutSource
    \/ OptionWithWhateverContextCall
    \/ OptionWithWhateverContextOkOrElse
    \/ OptionWithWhateverContextClosure
    \/ OptionWithWhateverContextIntoString
    \/ OptionWithWhateverContextWithoutSource
    \/ BacktraceCall
    \/ BacktraceRef
    \/ BacktraceBox
    \/ BacktraceDefault
    \/ BacktraceOverridden

NextBacktrace ==
    \/ \E t \in Threads : GenerateCall(t)
    \/ \E t \in Threads : CallOnce(t)
    \/ \E t \in Threads : InitReadLib(t)
    \/ \E t \in Threads : InitReadBt(t)
    \/ \E t \in Threads : InitStore(t)
    \/ \E t \in Threads : InitFinish(t)
    \/ \E t \in Threads : Load(t)
    \/ SetEnv

\* The context operations and macros, run by one caller.
Next == NextContext

Spec == Init /\ [][Next]_vars

\* The backtrace flag, with NumThreads threads calling generate.
BtNext == NextBacktrace

BtSpec == Init /\ [][BtNext]_vars

-----------------------------------------------------------------------------
(* Properties of the context operations and macros (checked under Spec) *)

EagerOps == {"Result::context", "Option::context"}
LazyOps == {"Result::with_context", "Option::with_context"}

\* The positions of an evaluation in the log.
Positions(event) == {i \in 1..Len(log) : log[i] = event}

\* C1: a successful input (Ok(v), Some(v)) passed through context or
\* with_context comes out as Ok(v) with the same v; into_error is never called
\* and, for the lazy variants, the closure is never invoked.
C1_SuccessPassesThrough ==
    (op \in EagerOps \cup LazyOps /\ self.tag \in {"Ok", "Some"}) =>
        /\ built = <<>>
        /\ Positions("into_error") = {}
        /\ Positions("closure") = {}
        /\ op \in LazyOps => ctx = <<>>
        /\ pc = "done" => flow = "value" /\ out = Ok(self.val)

C1_Witness ==
    /\ op \in LazyOps
    /\ self.tag \in {"Ok", "Some"}
    /\ pc = "done"
    /\ out = Ok(self.val)

\* C2: with_context on a failing input (Err(e), None) invokes the closure
\* exactly once, only after the failure has been observed and before
\* into_error is called with the closure's result; the closure never runs
\* before the failure is known.
C2_ClosureOnceAfterFailure ==
    op \in LazyOps =>
        /\ Cardinality(Positions("closure")) <= 1
        /\ \A i \in Positions("closure") :
               \E j \in Positions("match_fail") : j < i
        /\ \A k \in Positions("into_error") :
               \E i \in Positions("closure") : i < k
        /\ (pc = "done" /\ self.tag \in {"Err", "None"}) =>
               /\ Cardinality(Positions("closure")) = 1
               /\ Len(built) = 1
               /\ built[1].fn = "into_error"
               /\ built[1].selector = context

C2_Witness ==
    /\ op = "Result::with_context"
    /\ self.tag = "Err"
    /\ pc = "done"
    /\ log = <<"match_fail", "closure", "into_error">>

\* C3: on failure, context yields exactly Err(selector.into_error(cause)),
\* where the cause is the unmodified e of Err(e) and the NoneError sentinel
\* for None; the cause read back from the produced error equals e, and the
\* error's fields are the selector's.
C3_ContextCombines ==
    (op \in EagerOps /\ pc = "done" /\ self.tag \in {"Err", "None"}) =>
        LET cause == IF self.tag = "Err" THEN self.val ELSE NoneError IN
        /\ built = <<[fn |-> "into_error", selector |-> context, source |-> cause]>>
        /\ out = Err(IntoError(context, cause))
        /\ out.val.path = context.path
        /\ out.val.variant = context.variant
        /\ self.tag = "Err" => ErrorSource(out.val) = <<self.val>>
        /\ self.tag = "None" => ErrorSource(out.val) = <<>>

C3_Witness ==
    /\ op = "Result::context"
    /\ pc = "done"
    /\ self = Err("io: not found")
    /\ context.path = "/tmp/x"
    /\ out.tag = "Err"
    /\ out.val.path = "/tmp/x"
    /\ ErrorSource(out.val) = <<"io: not found">>

\* C4: ensure!(predicate, selector) falls through, with no effect, if and
\* only if the predicate is true; otherwise the enclosing function returns
\* the error that combining the selector with "no source" yields, converted
\* into the function's error type.
C4_EnsureIffPredicate ==
    (op = "ensure!" /\ pc = "done") =>
        /\ flow \in {"continue", "return"}
        /\ flow = "continue" <=> predicate
        /\ predicate => out = Pending /\ built = <<>> /\ ctx = <<>>
        /\ ~predicate =>
               /\ out = Err(Into(IntoError(context, NoneError), target))
               /\ built = <<[fn |-> "into_error", selector |-> context,
                             source |-> NoneError]>>

C4_Witness ==
    /\ op = "ensure!"
    /\ pc = "done"
    /\ ~predicate
    /\ target = "TopError"
    /\ flow = "return"
    /\ out.tag = "Err"

\* The text each format case renders to, written out.
ExpectedText(f) ==
    CASE f.lit = <<"There was no angle">> -> "There was no angle"
      [] f.lit = <<"account ", "{}", ", sorry">> /\ f.args = <<"7">> -> "account 7, sorry"
      [] f.lit = <<"account ", "{}", ", sorry">> /\ f.args = <<"x">> -> "account x, sorry"
      [] f.lit = <<"{}", " - ", "{}">> /\ f.args = <<"7", "7">> -> "7 - 7"
      [] f.lit = <<"{}", " - ", "{}">> /\ f.args = <<"7", "x">> -> "7 - x"

\* C5: whatever!(fmt, args...) always returns an error from the enclosing
\* function and never falls through; the error is built by
\* FromString::without_source, its message is the formatted string and it has
\* no cause.
C5_WhateverAlwaysReturns ==
    op = "whatever!" =>
        /\ flow \in {"running", "return"}
        /\ Positions("with_source") = {}
        /\ pc = "done" =>
               /\ flow = "return"
               /\ out.tag = "Err"
               /\ out.val.message = ExpectedText(fmt)
               /\ ErrorSource(out.val) = <<>>
               /\ built = <<[fn |-> "without_source",
                             message |-> ExpectedText(fmt)]>>

C5_Witness ==
    /\ op = "whatever!"
    /\ pc = "done"
    /\ flow = "return"
    /\ out.tag = "Err"
    /\ out.val.message = "account 7, sorry"

\* C6: whatever!(result, fmt, args...) evaluates to v for Ok(v), control
\* continues and no error is constructed; for Err(e) the enclosing function
\* returns with_source(e converted into the Source, formatted message).
C6_WhateverWithSource ==
    (op = "whatever!(source)" /\ pc = "done") =>
        /\ self.tag = "Ok" =>
               /\ flow = "value"
               /\ out = [tag |-> "Value", val |-> self.val]
               /\ built = <<>>
               /\ conv = <<>> /\ msg = <<>>
        /\ self.tag = "Err" =>
               /\ flow = "return"
               /\ out.tag = "Err"
               /\ out.val.message = ExpectedText(fmt)
               /\ ErrorSource(out.val) = <<IntoSource(self.val)>>
               /\ built = <<[fn |-> "with_source",
                             source |-> IntoSource(self.val),
                             message |-> ExpectedText(fmt)]>>

C6_Witness ==
    /\ op = "whatever!(source)"
    /\ pc = "done"
    /\ self = Err("io: permission denied")
    /\ flow = "return"
    /\ out.tag = "Err"
    /\ out.val.message = "7 - x"
    /\ out.val.source = <<[boxed |-> "io: permission denied"]>>

\* The text each message closure yields for the failure e, written out.
ExpectedClosureText(f, e) ==
    IF f = "fixed" THEN "Can't do the math" ELSE "failed: " \o e

\* C11: on Err(e), whatever_context(msg) yields Err(with_source(e converted
\* into the Source, msg)) and with_whatever_context(f) yields
\* Err(with_source(converted e, f(&e))), f being invoked exactly once, on the
\* original failure; on Ok(v) both return Ok(v), f is never invoked and no
\* error is constructed.
C11_WhateverContext ==
    op \in {"Result::whatever_context", "Result::with_whatever_context"} =>
        /\ self.tag = "Ok" =>
               /\ built = <<>> /\ seen = <<>> /\ conv = <<>>
               /\ Positions("closure") = {}
               /\ pc = "done" => flow = "value" /\ out = Ok(self.val)
        /\ Len(seen) <= 1
        /\ (pc = "done" /\ self.tag = "Err") =>
               LET text == IF op = "Result::whatever_context"
                           THEN context.str
                           ELSE ExpectedClosureText(context, self.val)
               IN  /\ out = Err(WithSource(IntoSource(self.val), text))
                   /\ out.val.message = text
                   /\ ErrorSource(out.val) = <<[boxed |-> self.val]>>
                   /\ built = <<[fn |-> "with_source",
                                 source |-> IntoSource(self.val),
                                 message |-> text]>>
                   /\ op = "Result::with_whatever_context" =>
                          /\ seen = <<Ref(self.val)>>
                          /\ Cardinality(Positions("closure")) = 1
                          /\ \A i \in Positions("closure") :
                                 \A j \in Positions("into") : i < j
                   /\ op = "Result::whatever_context" => seen = <<>>

C11_Witness ==
    /\ op = "Result::with_whatever_context"
    /\ pc = "done"
    /\ self = Err("io: not found")
    /\ context = "describe"
    /\ seen = <<[ref |-> "io: not found"]>>
    /\ out.tag = "Err"
    /\ out.val.message = "failed: io: not found"
    /\ out.val.source = <<[boxed |-> "io: not found"]>>

\* The operations that start from a failure carrying a cause, and those
\* that have no underlying cause.
CauseOps ==
    {"Result::context", "Result::with_context", "Result::whatever_context",
     "Result::with_whatever_context", "whatever!(source)"}
OptionOps ==
    {"Option::context", "Option::with_context", "Option::whatever_context",
     "Option::with_whatever_context"}
CauselessOps == OptionOps \cup {"whatever!", "ensure!"}

\* C12: a cause is never swallowed.  Every operation that starts from a
\* failure carrying a cause passes that cause to the combining step
\* (into_error or with_source); the cause-less constructors (without_source,
\* combination with NoneError) are used only by the operations that have no
\* underlying cause: the OptionExt operations on None, whatever!(fmt), ensure!.
C12_NeverSwallowsCause ==
    /\ \A i \in 1..Len(built) :
           LET b == built[i] IN
           /\ op \in CauseOps =>
                  /\ self.tag = "Err"
                  /\ \/ b.fn = "into_error" /\ b.source = self.val
                     \/ b.fn = "with_source" /\ b.source = IntoSource(self.val)
           /\ (b.fn = "without_source"
                   \/ (b.fn = "into_error" /\ b.source = NoneError)) =>
                  /\ op \in CauselessOps
                  /\ op \in OptionOps => self.tag = "None"
    /\ (op \in CauseOps /\ pc = "done" /\ self.tag = "Err") =>
           /\ Len(built) = 1
           /\ out.tag = "Err"
           /\ ErrorSource(out.val) # <<>>

C12_Witness ==
    /\ op = "Result::whatever_context"
    /\ pc = "done"
    /\ self = Err("io: permission denied")
    /\ built = <<[fn |-> "with_source",
                  source |-> [boxed |-> "io: permission denied"],
                  message |-> "There was no angle"]>>
    /\ ErrorSource(out.val) = <<[boxed |-> "io: permission denied"]>>

\* C13: ErrorCompat::backtrace is absent for an error type that does not
\* override it; asked through & or Box, at any nesting depth, it is exactly
\* what the wrapped error's own backtrace() returns: present iff the wrapped
\* error reports one.
C13_BacktraceThroughWrappers ==
    (op = "ErrorCompat::backtrace" /\ pc = "done") =>
        /\ out.tag = "Backtrace"
        /\ ~self.base.overrides => out.val = <<>>
        /\ self.base.overrides => out.val = self.base.backtrace
        /\ Len(log) = Len(self.layers) + 1
        /\ \A i \in 1..Len(self.layers) : log[i] = "deref_" \o self.layers[i]
        /\ built = <<>>

C13_Witness ==
    /\ op = "ErrorCompat::backtrace"
    /\ pc = "done"
    /\ self.layers = <<"ref", "box">>
    /\ self.base = [overrides |-> TRUE, backtrace |-> <<"frames">>]
    /\ out = [tag |-> "Backtrace", val |-> <<"frames">>]

\* C14: the macros evaluate the guard exactly once and the error-building
\* arguments only on the failure path: ensure! evaluates its predicate once
\* and its selector only when the predicate is false; whatever!(result, fmt,
\* args...) evaluates the result once and the format arguments only when the
\* result is Err.
C14_MacroEvaluation ==
    /\ op = "ensure!" =>
           /\ Cardinality(Positions("predicate")) <= 1
           /\ Cardinality(Positions("selector")) <= 1
           /\ pc \notin {"test"} => Cardinality(Positions("predicate")) = 1
           /\ \A i \in Positions("selector") :
                  /\ ~predicate
                  /\ \E j \in Positions("predicate") : j < i
           /\ pc = "done" =>
                  Cardinality(Positions("selector")) = (IF predicate THEN 0 ELSE 1)
    /\ op = "whatever!(source)" =>
           /\ Cardinality(Positions("source")) <= 1
           /\ Cardinality(Positions("format")) <= 1
           /\ pc \notin {"match"} => Cardinality(Positions("source")) = 1
           /\ \A i \in Positions("format") :
                  /\ self.tag = "Err"
                  /\ \E j \in Positions("source") : j < i
           /\ self.tag = "Ok" => msg = <<>>
           /\ pc = "done" =>
                  Cardinality(Positions("format")) = (IF self.tag = "Ok" THEN 0 ELSE 1)

C14_Witness ==
    /\ op = "whatever!(source)"
    /\ pc = "done"
    /\ self.tag = "Ok"
    /\ fmt.args # <<>>
    /\ log = <<"source">>
    /\ flow = "value"

-----------------------------------------------------------------------------
(* Properties of the backtrace flag (checked under BtSpec) *)

\* An environment that turns capture on: the first variable is the marker,
\* or it is absent and the second is the marker.
EnvEnables(e) == e[LIB] = <<"1">> \/ (e[LIB] = <<>> /\ e[BT] = <<"1">>)

\* C7: backtrace presence is fixed per process.  If the environment enables
\* capture when the first generate call is made, and is not changed while that
\* call runs, every generate call returns a present backtrace (and an absent
\* one if the environment does not enable it); changes made after the first
\* call have no effect: every call returns what the first returned.
C7_PresenceFixedByFirstCall ==
    /\ \A i \in 1..Len(results) : results[i] = results[1]
    /\ ~first.disturbed =>
           \A i \in 1..Len(results) : results[i] = EnvEnables(first.env)

C7_Witness ==
    /\ first.phase = "returned"
    /\ ~first.disturbed
    /\ EnvEnables(first.env)
    /\ ~EnvEnables(env)
    /\ envChanges >= 1
    /\ Len(results) >= 2
    /\ results[Len(results)] = TRUE

\* C8: over any number of generate calls from any number of threads the
\* initializer runs at most once: each variable is read at most once, the flag
\* is written at most once, and after the write its value never changes.
C8_InitializedAtMostOnce ==
    /\ initRuns <= 1
    /\ Cardinality({i \in 1..Len(reads) : reads[i].name = LIB}) <= 1
    /\ Cardinality({i \in 1..Len(reads) : reads[i].name = BT}) <= 1
    /\ Len(stores) <= 1
    /\ ENABLED_FLAG = (IF stores = <<>> THEN FALSE ELSE stores[1])

C8_Witness ==
    /\ initRuns = 1
    /\ Len(stores) = 1
    /\ ENABLED_FLAG
    /\ ~EnvEnables(env)
    /\ results # <<>>
    /\ \E t, u \in Threads : t # u /\ tpc[t] = "load" /\ tpc[u] = "load"

\* C9: threads racing on their first generate call all observe the finalized
\* flag: the flag is read only after the single initialization has completed,
\* so no call returns absent for having read the default while the initializer
\* was in progress, and all calls agree with the flag.
C9_RacersObserveFinalFlag ==
    /\ \A t \in Threads :
           tpc[t] = "load" => START = "complete" /\ Len(stores) = 1
    /\ results # <<>> => START = "complete"
    /\ \A i \in 1..Len(results) : results[i] = ENABLED_FLAG

C9_Witness ==
    /\ raced
    /\ ENABLED_FLAG
    /\ Len(results) >= 2
    /\ \A i \in 1..Len(results) : results[i] = TRUE
    /\ \A t \in Threads : tpc[t] = "idle"

\* C10: the flag is computed from the ordered pair (RUST_LIB_BACKTRACE,
\* RUST_BACKTRACE): the first is consulted, the second only if the first is
\* absent, and the flag is true only if the consulted value is "1".  A first
\* variable holding anything else (the empty text too) leaves capture off even
\* if the second is "1"; so does the absence of both.
C10_FlagFromOrderedPair ==
    /\ Len(reads) <= 2
    /\ reads # <<>> => reads[1].name = LIB
    /\ Len(reads) = 2 => reads[2].name = BT /\ reads[1].val = <<>>
    /\ stores # <<>> =>
           /\ reads # <<>>
           /\ reads[1].val = <<>> => Len(reads) = 2
           /\ stores[1] = (reads[Len(reads)].val = <<"1">>)
    /\ (START = "complete" /\ ~first.disturbed) =>
           ENABLED_FLAG = EnvEnables(first.env)

C10_Witness ==
    /\ START = "complete"
    /\ envChanges = 0
    /\ env[LIB] = <<"">>
    /\ env[BT] = <<"1">>
    /\ reads = <<[name |-> LIB, val |-> <<"">>]>>
    /\ ~ENABLED_FLAG
    /\ results = <<FALSE>>

====
